---------------------------- MODULE Spec2Model ----------------------------
(***************************************************************************)
(* Model of src/exp_datafile.py: load_exp_datafile, the line-oriented      *)
(* parser of Thermo-Calc experimental datafiles.                           *)
(*                                                                         *)
(* One ReadLine step is one iteration of the loop `for line in f` (lines   *)
(* 37-85); Return is the code after the loop (lines 87-95).  A raw line is *)
(* a sequence of pieces, each piece a whitespace character or a maximal    *)
(* run of non-whitespace characters (a token).  A float is modelled by its *)
(* value in tenths; a block entry is a record, so that None and floats can *)
(* sit in the same sequence.  hist is the prefix of the stream the loop    *)
(* has consumed; an exception leaves the loop with pc = "raised".          *)
(*                                                                         *)
(* x.append(xblock) stores the list object itself: alias counts the sealed *)
(* entries that are the object xblock still names, and an append to xblock *)
(* reaches them.  Call is the caller making the next call of               *)
(* load_exp_datafile; Draw is plot_exp_datafile (lines 120-136) after its   *)
(* own call of load_exp_datafile has returned; ReadNext reads a file whose *)
(* lines are all fixed before the call.                                    *)
(***************************************************************************)
EXTENDS Integers, Sequences, FiniteSets, TLC

VARIABLES
    pc,         \* "reading" (in the loop), "done" (returned), "raised"
    blockin,    \* line 29
    clip,       \* line 30
    bound,      \* whether the names xblock, yblock are bound (lines 43-44)
    xblock,     \* the open block's x-sequence
    yblock,     \* the open block's y-sequence
    x,          \* line 33: the sealed x-sequences
    y,          \* line 33: the sealed y-sequences
    xlab,       \* line 34
    ylab,       \* line 34
    xlim,       \* line 35
    ylim,       \* line 35
    err,        \* the exception that left the call, "none" if none
    hist,       \* the raw lines consumed so far, in stream order
    ret,        \* the returned tuple (line 95), with the mode it was made in
    alias,      \* how many trailing entries of x (of y) are the very list
                \* object that xblock (yblock) names (lines 48-49)
    rest,       \* the lines of the file not read yet, for a file given whole
    prev,       \* the stream and the outcome of the call before this one
    plot        \* plot_exp_datafile: the surface, the calls made on it, and
                \* the surface returned

vars == <<pc, blockin, clip, bound, xblock, yblock, x, y, xlab, ylab,
          xlim, ylim, err, hist, ret, alias, rest, prev, plot>>

-----------------------------------------------------------------------------
(* Bounds on the streams explored.                                         *)

\* Spec: streams over the whole line alphabet.
MaxLines == 3
\* SpecData: streams of block markers, clip toggles and coordinate lines.
MaxDataLines == 5
\* SpecTrip: streams over the lines of the round-trip file.
MaxTripLines == 6
\* SpecCalls: the streams of each of the successive calls.
MaxCallLines == 3
\* SpecPlot: the streams plot_exp_datafile draws.
MaxPlotLines == 5
\* SpecFile: the files given whole.
MaxFileLines == 3

-----------------------------------------------------------------------------
(* Values.                                                                 *)

\* Python's None, as an entry of a coordinate sequence.
None == [k |-> "None", v |-> 0]

\* The float whose value is t tenths.
F(t) == [k |-> "float", v |-> t]

\* float(tok) on the tokens of the alphabet: the value in tenths of every
\* token that float() accepts; float() raises ValueError on any other token.
FloatVal ==
    ("0" :> 0) @@ ("1" :> 10) @@ ("1.0" :> 10) @@ ("2.0" :> 20) @@
    ("3.0" :> 30) @@ ("4.0" :> 40) @@ ("1.5" :> 15) @@ ("2.5" :> 25) @@
    ("100" :> 1000) @@ ("-5" :> -50) @@ ("5" :> 50)

IsFloat(tok) == tok \in DOMAIN FloatVal

Float(tok) == F(FloatVal[tok])

\* The characters line.strip(' \t\n') and line.split() treat as whitespace.
Whitespace == {" ", "\t", "\n"}

\* line.strip(' \t\n').split(): the tokens of a raw line, in order.
Split(line) == SelectSeq(line, LAMBDA p : p \notin Whitespace)

\* ' '.join(ts) for a non-empty ts.
RECURSIVE Join(_)
Join(ts) == IF Len(ts) = 1 THEN ts[1] ELSE ts[1] \o " " \o Join(Tail(ts))

-----------------------------------------------------------------------------
(* The loop body, on the record s of the call's local variables.           *)

Locals ==
    [blockin |-> blockin, clip |-> clip, bound |-> bound,
     xblock |-> xblock, yblock |-> yblock, x |-> x, y |-> y,
     xlab |-> xlab, ylab |-> ylab, xlim |-> xlim, ylim |-> ylim,
     err |-> err, alias |-> alias]

\* Fault variant of OpenBlock: a BLOCK line read while a block is open
\* keeps collecting into that block.
OpenBlockKeep(s) ==
    IF s.blockin THEN s
    ELSE [s EXCEPT !.xblock = <<>>, !.yblock = <<>>, !.bound = TRUE,
                   !.blockin = TRUE, !.alias = 0]

\* Fault variant of OpenBlock: the lists xblock and yblock name are emptied
\* in place once they exist, so the sealed entries that are these lists are
\* emptied with them.
OpenBlockClears(s) ==
    IF ~s.bound
    THEN [s EXCEPT !.xblock = <<>>, !.yblock = <<>>, !.bound = TRUE,
                   !.blockin = TRUE, !.alias = 0]
    ELSE [s EXCEPT !.xblock = <<>>, !.yblock = <<>>, !.blockin = TRUE,
                   !.x = [i \in 1..Len(s.x) |->
                            IF i > Len(s.x) - s.alias THEN <<>> ELSE s.x[i]],
                   !.y = [i \in 1..Len(s.y) |->
                            IF i > Len(s.y) - s.alias THEN <<>> ELSE s.y[i]]]

\* Fault variant of OpenBlock: a BLOCK line also turns clip back on.
OpenBlockResetClip(s) ==
    [s EXCEPT !.xblock = <<>>, !.yblock = <<>>, !.bound = TRUE,
              !.blockin = TRUE, !.clip = TRUE, !.alias = 0]

\* Lines 43-45.  xblock and yblock name new list objects, which no sealed
\* entry is.
OpenBlock(s) ==
    [s EXCEPT !.xblock = <<>>, !.yblock = <<>>, !.bound = TRUE,
              !.blockin = TRUE, !.alias = 0]

\* Fault variant of SealBlock: a block without entries is not sealed.
SealNonEmpty(s) ==
    IF ~s.bound
    THEN [s EXCEPT !.err = "UnboundLocalError"]
    ELSE IF s.xblock = <<>>
    THEN [s EXCEPT !.blockin = FALSE]
    ELSE [s EXCEPT !.x = Append(@, s.xblock), !.y = Append(@, s.yblock),
                   !.blockin = FALSE, !.alias = @ + 1]

\* Lines 48-50.  Reading the name xblock before any BLOCK line bound it
\* raises UnboundLocalError; otherwise the object xblock names is appended,
\* not a copy of it.
SealBlock(s) ==
    IF ~s.bound
    THEN [s EXCEPT !.err = "UnboundLocalError"]
    ELSE [s EXCEPT !.x = Append(@, s.xblock), !.y = Append(@, s.yblock),
                   !.blockin = FALSE, !.alias = @ + 1]

\* Lines 41-50.
Markers(s, arr) ==
    IF Len(arr) > 0
    THEN LET s1 == IF arr[1] = "BLOCK" THEN OpenBlock(s) ELSE s
         IN  IF arr[1] = "BLOCKEND" THEN SealBlock(s1) ELSE s1
    ELSE s

\* Fault variant of Labels: a label once set is kept.
LabelsFirstWins(s, arr) ==
    LET s1 == IF arr[1] = "XTEXT" /\ s.xlab = ""
              THEN [s EXCEPT !.xlab = Join(Tail(arr))] ELSE s
    IN  IF arr[1] = "YTEXT" /\ s.ylab = ""
        THEN [s1 EXCEPT !.ylab = Join(Tail(arr))] ELSE s1

\* Lines 53-57.
Labels(s, arr) ==
    LET s1 == IF arr[1] = "XTEXT"
              THEN [s EXCEPT !.xlab = Join(Tail(arr))] ELSE s
    IN  IF arr[1] = "YTEXT"
        THEN [s1 EXCEPT !.ylab = Join(Tail(arr))] ELSE s1

\* Lines 59-63.
Clip(s, arr) ==
    LET s1 == IF arr[1] = "CLIP" /\ arr[2] = "ON"
              THEN [s EXCEPT !.clip = TRUE] ELSE s
    IN  IF arr[1] = "CLIP" /\ arr[2] = "OFF"
        THEN [s1 EXCEPT !.clip = FALSE] ELSE s1

\* Lines 69-70, 73-74: blk.append(v), blk one of "xblock", "yblock" and col
\* the list of sealed blocks beside it.  The append changes the list object
\* blk names, so every sealed entry that is this object shows it too.
AppendTo(s, blk, col, v) ==
    [s EXCEPT ![blk] = Append(@, v),
              ![col] = [i \in 1..Len(s[col]) |->
                          IF i > Len(s[col]) - s.alias
                          THEN Append(s[col][i], v) ELSE s[col][i]]]

\* Lines 72-76.  xblock.append(float(arr[0])) is done before float(arr[1])
\* is evaluated; the bare except swallows the ValueError of either.
TryAppend(s, arr) ==
    IF ~IsFloat(arr[1])
    THEN s
    ELSE LET s1 == AppendTo(s, "xblock", "x", Float(arr[1]))
         IN  IF ~IsFloat(arr[2])
             THEN s1
             ELSE AppendTo(s1, "yblock", "y", Float(arr[2]))

\* Fault variant of Collect: the block-open flag is not looked at.
CollectIgnoresBlockin(s, arr) ==
    IF s.clip
    THEN IF arr[2] = "PLOTTED"
         THEN AppendTo(AppendTo(s, "xblock", "x", None), "yblock", "y", None)
         ELSE TryAppend(s, arr)
    ELSE s

\* Fault variant of Collect: a PLOTTED line is parsed like any other.
CollectParsesPlotted(s, arr) ==
    IF s.blockin /\ s.clip THEN TryAppend(s, arr) ELSE s

\* Lines 65-76.
Collect(s, arr) ==
    IF s.blockin /\ s.clip
    THEN IF arr[2] = "PLOTTED"
         THEN AppendTo(AppendTo(s, "xblock", "x", None), "yblock", "y", None)
         ELSE TryAppend(s, arr)
    ELSE s

\* Lines 52-76.
Pairs(s, arr) ==
    IF s.err = "none" /\ Len(arr) > 1
    THEN Collect(Clip(Labels(s, arr), arr), arr)
    ELSE s

\* Fault variant of Scale: the two floats replace what the list held.
ScaleLastWins(s, lim, arr) ==
    IF ~IsFloat(arr[2])
    THEN [s EXCEPT !.err = "ValueError"]
    ELSE IF ~IsFloat(arr[3])
    THEN [s EXCEPT ![lim] = <<Float(arr[2])>>, !.err = "ValueError"]
    ELSE [s EXCEPT ![lim] = <<Float(arr[2]), Float(arr[3])>>]

\* Lines 80-81 (lim = "xlim") and 84-85 (lim = "ylim"): two appends, each
\* after a float() that nothing catches.
Scale(s, lim, arr) ==
    IF ~IsFloat(arr[2])
    THEN [s EXCEPT !.err = "ValueError"]
    ELSE LET s1 == [s EXCEPT ![lim] = Append(@, Float(arr[2]))]
         IN  IF ~IsFloat(arr[3])
             THEN [s1 EXCEPT !.err = "ValueError"]
             ELSE [s1 EXCEPT ![lim] = Append(@, Float(arr[3]))]

\* Lines 78-85.
Limits(s, arr) ==
    IF s.err = "none" /\ Len(arr) > 2
    THEN LET s1 == IF arr[1] = "XSCALE" THEN Scale(s, "xlim", arr) ELSE s
         IN  IF s1.err = "none" /\ arr[1] = "YSCALE"
             THEN Scale(s1, "ylim", arr) ELSE s1
    ELSE s

\* Lines 38-85: one iteration of the loop on the raw line `line`.
Body(s, line) ==
    LET arr == Split(line)
    IN  Limits(Pairs(Markers(s, arr), arr), arr)

\* Fault variant of Flatten: None between the blocks only.
RECURSIVE FlattenBetween(_)
FlattenBetween(bs) ==
    IF bs = <<>> THEN <<>>
    ELSE IF Len(bs) = 1 THEN Head(bs)
    ELSE (Head(bs) \o <<None>>) \o FlattenBetween(Tail(bs))

\* Lines 88-92: every block followed by one None, in order.
RECURSIVE Flatten(_)
Flatten(bs) ==
    IF bs = <<>> THEN <<>> ELSE (Head(bs) \o <<None>>) \o Flatten(Tail(bs))

\* Lines 87-95: the tuple returned in mode `blocks`.
Result(blocks) ==
    [blocks |-> blocks,
     x |-> IF blocks THEN x ELSE Flatten(x),
     y |-> IF blocks THEN y ELSE Flatten(y),
     xlab |-> xlab, ylab |-> ylab, xlim |-> xlim, ylim |-> ylim]

\* One call on the surface: ax.plot(a, b), or a setter with argument a.
AxCall(op, a, b) == [op |-> op, a |-> a, b |-> b]

\* Fault variant of Series: one series whatever the mode.
SeriesOne(r) == <<AxCall("plot", r.x, r.y)>>

\* Lines 125-129: the ax.plot calls for the tuple r that load_exp_datafile
\* returned in mode r.blocks; zip stops at the shorter of x and y.
Series(r) ==
    IF r.blocks
    THEN [i \in 1..(IF Len(r.x) <= Len(r.y) THEN Len(r.x) ELSE Len(r.y)) |->
             AxCall("plot", r.x[i], r.y[i])]
    ELSE <<AxCall("plot", r.x, r.y)>>

\* Lines 125-134: all calls made on the surface, in order.
PlotLog(r) ==
    Series(r) \o
    <<AxCall("set_xlabel", r.xlab, <<>>), AxCall("set_ylabel", r.ylab, <<>>),
      AxCall("set_xlim", r.xlim, <<>>), AxCall("set_ylim", r.ylim, <<>>)>>

-----------------------------------------------------------------------------
(* The streams.                                                            *)

\* The raw line whose tokens are ts, single spaces between, newline ended.
RECURSIVE Raw(_)
Raw(ts) ==
    IF ts = <<>> THEN <<"\n">>
    ELSE IF Len(ts) = 1 THEN <<ts[1], "\n">>
    ELSE <<ts[1], " ">> \o Raw(Tail(ts))

PlottedLine == Raw(<<"$", "PLOTTED", "COLUMNS", "ARE", "X", "Y">>)

\* Block markers, clip toggles, coordinate lines good and bad.
DataLines ==
    {Raw(<<"BLOCK">>), Raw(<<"BLOCKEND">>),
     Raw(<<"CLIP", "ON">>), Raw(<<"CLIP", "OFF">>),
     Raw(<<"1.0", "2.0">>), Raw(<<"3.0", "4.0">>),
     Raw(<<"abc", "def">>), Raw(<<"1.5", "abc">>),
     PlottedLine}

\* The lines of the round-trip file.
TripLines ==
    {Raw(<<"XTEXT", "Temperature">>), Raw(<<"YTEXT", "Energy">>),
     Raw(<<"BLOCK">>), Raw(<<"1.0", "2.0">>), Raw(<<"2.0", "3.0">>),
     Raw(<<"BLOCKEND">>)}

\* Metadata lines, with ragged whitespace, short and malformed ones.
MetaLines ==
    {Raw(<<>>),
     Raw(<<"XTEXT", "Temperature">>), Raw(<<"XTEXT">>),
     <<" ", "XTEXT", "\t", "T", " ", " ", "K", " ", "\n">>,
     Raw(<<"XTEXT", "PLOTTED", "COLUMNS">>),
     Raw(<<"YTEXT", "Energy">>), Raw(<<"YTEXT", "G", "J">>),
     Raw(<<"XSCALE", "0", "100">>), Raw(<<"XSCALE", "1.5", "2.5">>),
     Raw(<<"XSCALE", "0">>), Raw(<<"XSCALE", "a", "b">>),
     Raw(<<"XSCALE", "0", "b">>),
     Raw(<<"YSCALE", "-5", "5">>)}

\* Lines whose effect a later call would show, had it outlived the call.
CallLines ==
    {Raw(<<"BLOCK">>), Raw(<<"BLOCKEND">>), Raw(<<"1.0", "2.0">>),
     Raw(<<"CLIP", "OFF">>), Raw(<<"XSCALE", "0", "100">>)}

\* Blocks, labels and limits to draw.
PlotLines ==
    {Raw(<<"BLOCK">>), Raw(<<"BLOCKEND">>), Raw(<<"1.0", "2.0">>),
     Raw(<<"XTEXT", "Temperature">>), Raw(<<"YTEXT", "Energy">>),
     Raw(<<"XSCALE", "0", "100">>), Raw(<<"YSCALE", "-5", "5">>)}

\* Lines of a file given whole, one of them malformed.
FileLines ==
    {Raw(<<"BLOCK">>), Raw(<<"BLOCKEND">>), Raw(<<"1.0", "2.0">>),
     Raw(<<"XSCALE", "a", "b">>)}

\* The files of at most MaxFileLines lines.
Files == UNION {[1..n -> FileLines] : n \in 0..MaxFileLines}

Lines ==
    MetaLines \cup
    {Raw(<<"BLOCK">>), Raw(<<"BLOCKEND">>),
     Raw(<<"CLIP", "ON">>), Raw(<<"CLIP", "OFF">>),
     Raw(<<"1.0", "2.0">>), Raw(<<"1.5", "abc">>), PlottedLine}

-----------------------------------------------------------------------------
(* The state machine.                                                      *)

NoResult ==
    [blocks |-> FALSE, x |-> <<>>, y |-> <<>>, xlab |-> "", ylab |-> "",
     xlim |-> <<>>, ylim |-> <<>>]

\* No call came before.
NoPrev == [hist |-> <<>>, pc |-> "none", err |-> "none", ret |-> NoResult]

\* plot_exp_datafile has drawn nothing.
NoPlot == [given |-> FALSE, ax |-> "none", log |-> <<>>, ret |-> "none"]

\* Lines 29-35: the locals of a call on entering the loop.  xblock and
\* yblock are not bound yet; the empty sequences stand in for the missing
\* values.
NewCall ==
    [blockin |-> FALSE, clip |-> TRUE, bound |-> FALSE,
     xblock |-> <<>>, yblock |-> <<>>, x |-> <<>>, y |-> <<>>,
     xlab |-> "", ylab |-> "", xlim |-> <<>>, ylim |-> <<>>,
     err |-> "none", alias |-> 0]

\* The locals become those of the record s.
Becomes(s) ==
    /\ blockin' = s.blockin
    /\ clip' = s.clip
    /\ bound' = s.bound
    /\ xblock' = s.xblock
    /\ yblock' = s.yblock
    /\ x' = s.x
    /\ y' = s.y
    /\ xlab' = s.xlab
    /\ ylab' = s.ylab
    /\ xlim' = s.xlim
    /\ ylim' = s.ylim
    /\ err' = s.err
    /\ alias' = s.alias

\* The locals are those of the record s.
Holds(s) ==
    /\ blockin = s.blockin
    /\ clip = s.clip
    /\ bound = s.bound
    /\ xblock = s.xblock
    /\ yblock = s.yblock
    /\ x = s.x
    /\ y = s.y
    /\ xlab = s.xlab
    /\ ylab = s.ylab
    /\ xlim = s.xlim
    /\ ylim = s.ylim
    /\ err = s.err
    /\ alias = s.alias

\* The first call is entered; nothing of the file is known yet.
Init ==
    /\ pc = "reading"
    /\ Holds(NewCall)
    /\ hist = <<>>
    /\ ret = NoResult
    /\ rest = <<>>
    /\ prev = NoPrev
    /\ plot = NoPlot

\* The first call is entered on a file given whole.
InitFile ==
    /\ pc = "reading"
    /\ Holds(NewCall)
    /\ hist = <<>>
    /\ ret = NoResult
    /\ rest \in Files
    /\ prev = NoPrev
    /\ plot = NoPlot

\* Lines 37-85: the loop takes the next line of the stream.  An exception
\* leaves the call with the locals as they were when it was raised.
ReadLine(line) ==
    /\ pc = "reading"
    /\ LET s == Body(Locals, line)
       IN  /\ Becomes(s)
           /\ pc' = IF s.err = "none" THEN "reading" ELSE "raised"
    /\ hist' = Append(hist, line)
    /\ UNCHANGED <<ret, prev, plot>>

\* Lines 87-95: the stream is exhausted; the call returns in mode `blocks`.
Return(blocks) ==
    /\ pc = "reading"
    /\ rest = <<>>
    /\ pc' = "done"
    /\ ret' = Result(blocks)
    /\ UNCHANGED <<blockin, clip, bound, xblock, yblock, x, y, xlab, ylab,
                   xlim, ylim, err, hist, alias, rest, prev, plot>>

\* Fault variant of Call: xlim and ylim are list objects that outlive the
\* call.
CallKeepsLimits ==
    /\ pc \in {"done", "raised"}
    /\ prev' = [hist |-> hist, pc |-> pc, err |-> err, ret |-> ret]
    /\ Becomes([NewCall EXCEPT !.xlim = xlim, !.ylim = ylim])
    /\ pc' = "reading"
    /\ hist' = <<>>
    /\ ret' = NoResult
    /\ UNCHANGED <<rest, plot>>

\* Lines 5, 29-35: the caller, done with one call (returned or raised),
\* makes the next one; the locals are those of the new call.
Call ==
    /\ pc \in {"done", "raised"}
    /\ prev' = [hist |-> hist, pc |-> pc, err |-> err, ret |-> ret]
    /\ Becomes(NewCall)
    /\ pc' = "reading"
    /\ hist' = <<>>
    /\ ret' = NoResult
    /\ UNCHANGED <<rest, plot>>

\* plot_exp_datafile, lines 120-136, once its call of load_exp_datafile
\* (line 123, in the mode plot_exp_datafile was given) has returned ret:
\* the surface is the caller's if one was given and a new one otherwise.
Draw(given) ==
    /\ pc = "done"
    /\ pc' = "plotted"
    /\ LET ax == IF given THEN "caller" ELSE "new"
       IN  plot' = [given |-> given, ax |-> ax, log |-> PlotLog(ret),
                    ret |-> ax]
    /\ UNCHANGED <<blockin, clip, bound, xblock, yblock, x, y, xlab, ylab,
                   xlim, ylim, err, hist, ret, alias, rest, prev>>

Read ==
    \E line \in Lines :
        Len(hist) < MaxLines /\ ReadLine(line) /\ UNCHANGED rest

ReadData ==
    \E line \in DataLines :
        Len(hist) < MaxDataLines /\ ReadLine(line) /\ UNCHANGED rest

ReadTrip ==
    \E line \in TripLines :
        Len(hist) < MaxTripLines /\ ReadLine(line) /\ UNCHANGED rest

ReadCall ==
    \E line \in CallLines :
        Len(hist) < MaxCallLines /\ ReadLine(line) /\ UNCHANGED rest

ReadPlot ==
    \E line \in PlotLines :
        Len(hist) < MaxPlotLines /\ ReadLine(line) /\ UNCHANGED rest

\* Line 37 on a file given whole: the loop takes the first unread line.
ReadNext ==
    /\ rest # <<>>
    /\ ReadLine(Head(rest))
    /\ rest' = Tail(rest)

Finish ==
    \E blocks \in BOOLEAN : Return(blocks)

Plot ==
    \E given \in BOOLEAN : Draw(given)

Next == Read \/ Finish

NextData == ReadData \/ Finish

NextTrip == ReadTrip \/ Finish

Spec == Init /\ [][Next]_vars

SpecData == Init /\ [][NextData]_vars

SpecTrip == Init /\ [][NextTrip]_vars

NextCalls == ReadCall \/ Finish \/ Call

SpecCalls == Init /\ [][NextCalls]_vars

NextPlot == ReadPlot \/ Finish \/ Plot

SpecPlot == Init /\ [][NextPlot]_vars

NextFile == ReadNext \/ Finish

SpecFile == InitFile /\ [][NextFile]_vars

-----------------------------------------------------------------------------
(* The consumed stream, as the claims speak of it.                         *)

\* The tokens of the i-th line of stream h.
Toks(h, i) == Split(h[i])

\* The first token of the i-th line of h, "" for a line without tokens.
Tok1(h, i) == IF Toks(h, i) = <<>> THEN "" ELSE Toks(h, i)[1]

\* The step consumes one more line of the stream.
Reads == pc = "reading" /\ Len(hist') = Len(hist) + 1

\* The tokens of the line a Reads step consumes.
NewToks == Split(hist'[Len(hist')])

\* BLOCK and BLOCKEND lines alternate, starting with BLOCK and ending closed.
RECURSIVE Balanced(_, _)
Balanced(h, open) ==
    IF h = <<>> THEN ~open
    ELSE LET t == Tok1(h, 1)
         IN  IF t = "BLOCK" THEN ~open /\ Balanced(Tail(h), TRUE)
             ELSE IF t = "BLOCKEND" THEN open /\ Balanced(Tail(h), FALSE)
             ELSE Balanced(Tail(h), open)

\* The positions of the BLOCKEND lines of h.
EndLines(h) == {i \in 1..Len(h) : Tok1(h, i) = "BLOCKEND"}

\* The positions of the BLOCK lines of h.
BlockLines(h) == {i \in 1..Len(h) : Tok1(h, i) = "BLOCK"}

\* The number of complete BLOCK/BLOCKEND pairs of a balanced stream.
NPairs(h) == Cardinality(EndLines(h))

\* The number of None entries of a coordinate sequence.
CountNone(seq) == Cardinality({i \in DOMAIN seq : seq[i] = None})

\* The number of None entries inside the blocks bs.
RECURSIVE Sentinels(_)
Sentinels(bs) ==
    IF bs = <<>> THEN 0 ELSE CountNone(Head(bs)) + Sentinels(Tail(bs))

\* The number of entries of the blocks bs.
RECURSIVE Entries(_)
Entries(bs) == IF bs = <<>> THEN 0 ELSE Len(Head(bs)) + Entries(Tail(bs))

-----------------------------------------------------------------------------
(* C1.                                                                     *)

\* C1 as stated: on a stream with N complete BLOCK/BLOCKEND pairs the
\* per-block result has N x- and N y-sequences, and the flattened x and y
\* each hold exactly N None-delimited segments (N None entries).
C1_FlatHasNSegments ==
    (pc = "done" /\ Balanced(hist, FALSE)) =>
        IF ret.blocks
        THEN Len(ret.x) = NPairs(hist) /\ Len(ret.y) = NPairs(hist)
        ELSE /\ CountNone(ret.x) = NPairs(hist)
             /\ CountNone(ret.y) = NPairs(hist)

\* C1, amended: on a stream with N complete BLOCK/BLOCKEND pairs the
\* per-block result has N x- and N y-sequences; the flattened x and y each
\* hold the entries of the N blocks plus N delimiters, so N None entries
\* more than the sentinels the PLOTTED lines put inside the blocks.
C1_BlockCount ==
    (pc = "done" /\ Balanced(hist, FALSE)) =>
        IF ret.blocks
        THEN Len(ret.x) = NPairs(hist) /\ Len(ret.y) = NPairs(hist)
        ELSE /\ Len(x) = NPairs(hist) /\ Len(y) = NPairs(hist)
             /\ CountNone(ret.x) = NPairs(hist) + Sentinels(x)
             /\ CountNone(ret.y) = NPairs(hist) + Sentinels(y)
             /\ Len(ret.x) = Entries(x) + NPairs(hist)
             /\ Len(ret.y) = Entries(y) + NPairs(hist)

\* Two complete pairs, a sentinel inside one of them, flattened.
C1_Witness ==
    /\ pc = "done" /\ Balanced(hist, FALSE) /\ NPairs(hist) = 2
    /\ ~ret.blocks /\ Sentinels(x) > 0 /\ CountNone(ret.x) = 3

-----------------------------------------------------------------------------
(* C2.                                                                     *)

\* C2 as stated: a line of two or more tokens, read while a block is open
\* and clip is on, whose second token is not PLOTTED and one of whose first
\* two tokens is no float, changes neither sequence of the open block and
\* raises nothing.
C2_NoPartialAppend ==
    [][(/\ Reads
        /\ blockin /\ clip'
        /\ Len(NewToks) >= 2
        /\ NewToks[1] \notin {"BLOCK", "BLOCKEND"}
        /\ NewToks[2] # "PLOTTED"
        /\ (~IsFloat(NewToks[1]) \/ ~IsFloat(NewToks[2])))
       => (xblock' = xblock /\ yblock' = yblock /\ pc' # "raised")]_vars

-----------------------------------------------------------------------------
(* C3.                                                                     *)

\* C3 as stated: no token that fails to parse as a float makes the call
\* raise; float() is the only source of ValueError in the call.
C3_NeverRaisesOnNumber == ~(pc = "raised" /\ err = "ValueError")

-----------------------------------------------------------------------------
(* C4.                                                                     *)

\* C4 as stated: a BLOCKEND line read while no block is open raises nothing
\* and leaves the sealed x- and y-sequences as they were.
C4_BlockendNoOp ==
    [][(Reads /\ ~blockin /\ Len(NewToks) >= 1 /\ NewToks[1] = "BLOCKEND")
       => (pc' # "raised" /\ x' = x /\ y' = y)]_vars

-----------------------------------------------------------------------------
(* C5.                                                                     *)

MaxOf(S) == CHOOSE m \in S : \A k \in S : k <= m

\* The CLIP ON and CLIP OFF lines among the first j lines of h.
ClipLines(h, j) ==
    {i \in 1..j : /\ Len(Toks(h, i)) >= 2
                  /\ Toks(h, i)[1] = "CLIP"
                  /\ Toks(h, i)[2] \in {"ON", "OFF"}}

\* The clip state the most recent CLIP ON / CLIP OFF line among the first j
\* lines of h asks for; on when there is none.
ClipRef(h, j) ==
    IF ClipLines(h, j) = {} THEN TRUE
    ELSE Toks(h, MaxOf(ClipLines(h, j)))[2] = "ON"

\* The position of the i-th BLOCKEND line of h.
EndPos(h, i) ==
    CHOOSE e \in EndLines(h) :
        Cardinality({k \in EndLines(h) : k <= e}) = i

\* The position of the last BLOCK line before line e of h.
OpenPos(h, e) == MaxOf({b \in BlockLines(h) : b < e})

\* The BLOCK line b of h was read while a block was open: a BLOCK line
\* precedes it with no BLOCKEND line between them.
Reentry(h, b) ==
    \E b0 \in BlockLines(h) :
        b0 < b /\ ~\E k \in EndLines(h) : b0 < k /\ k < b

\* The locals of a call that has read nothing, with clip state c.
Fresh(c) ==
    [blockin |-> FALSE, clip |-> c, bound |-> FALSE,
     xblock |-> <<>>, yblock |-> <<>>, x |-> <<>>, y |-> <<>>,
     xlab |-> "", ylab |-> "", xlim |-> <<>>, ylim |-> <<>>, err |-> "none",
     alias |-> 0]

\* The locals after the lines ls, read from the locals s.
RECURSIVE Run(_, _)
Run(s, ls) == IF ls = <<>> THEN s ELSE Run(Body(s, Head(ls)), Tail(ls))

\* What the BLOCKEND line e of h seals when nothing read before the last
\* BLOCK line ahead of it counts, but for the clip state.
SealedFrom(h, e) ==
    LET b == OpenPos(h, e)
        r == Run(Fresh(ClipRef(h, b - 1)), SubSeq(h, b, e))
    IN  [x |-> r.x[Len(r.x)], y |-> r.y[Len(r.y)]]

\* The number of entries the flattened sequence holds before block i of bs.
RECURSIVE Off(_, _)
Off(bs, i) == IF i = 1 THEN 0 ELSE Off(bs, i - 1) + Len(bs[i - 1]) + 1

\* Block i of bs as it lies in the flattened sequence f.
Segment(f, bs, i) == SubSeq(f, Off(bs, i) + 1, Off(bs, i) + Len(bs[i]))

\* C5: a sealed block whose BLOCK line was read while a block was already
\* open holds exactly what the lines from that BLOCK line on appended,
\* nothing of the block abandoned; so does the result, in either mode.
C5_AbandonsOpenBlock ==
    pc # "raised" =>
        \A i \in 1..Len(x) :
            LET e == EndPos(hist, i)
                s == SealedFrom(hist, e)
            IN  Reentry(hist, OpenPos(hist, e)) =>
                    /\ x[i] = s.x
                    /\ y[i] = s.y
                    /\ pc = "done" =>
                         IF ret.blocks
                         THEN ret.x[i] = s.x /\ ret.y[i] = s.y
                         ELSE /\ Segment(ret.x, x, i) = s.x
                              /\ Segment(ret.y, y, i) = s.y
                              /\ Len(ret.x) = Entries(x) + Len(x)
                              /\ Len(ret.y) = Entries(y) + Len(y)

\* A block with data was abandoned, and the block sealed next is shorter.
C5_Witness ==
    /\ pc = "done" /\ ~ret.blocks /\ Len(x) = 1
    /\ Reentry(hist, OpenPos(hist, EndPos(hist, 1)))
    /\ Tok1(hist, 2) = "1.0" /\ Tok1(hist, 3) = "BLOCK"
    /\ ret.x = <<F(30), None>>

-----------------------------------------------------------------------------
(* C6.                                                                     *)

\* A line whose first two tokens both parse as floats.
CoordLine(arr) == Len(arr) >= 2 /\ IsFloat(arr[1]) /\ IsFloat(arr[2])

\* The tokens of every line of h.
TokHist(h) == [i \in 1..Len(h) |-> Split(h[i])]

ClipExample ==
    <<<<"BLOCK">>, <<"CLIP", "OFF">>, <<"1.0", "2.0">>, <<"CLIP", "ON">>,
      <<"3.0", "4.0">>>>

\* C6: clip starts on and after every line is what the most recent CLIP ON
\* or CLIP OFF line of the whole stream says (on if none), whatever BLOCK
\* and BLOCKEND lines were read; a coordinate line read in an open block is
\* appended if and only if that state is on; the example stream leaves
\* only (3.0, 4.0) in the open block.
C6_ClipPersists ==
    /\ clip = TRUE
    /\ [][Reads =>
            /\ clip' = ClipRef(hist', Len(hist'))
            /\ (blockin /\ CoordLine(NewToks)) =>
                 IF ClipRef(hist', Len(hist'))
                 THEN /\ xblock' = Append(xblock, Float(NewToks[1]))
                      /\ yblock' = Append(yblock, Float(NewToks[2]))
                 ELSE xblock' = xblock /\ yblock' = yblock
            /\ TokHist(hist') = ClipExample =>
                 xblock' = <<F(30)>> /\ yblock' = <<F(40)>>]_vars

\* The example stream has been read.
C6_Witness ==
    /\ TokHist(hist) = ClipExample /\ clip
    /\ xblock = <<F(30)>> /\ yblock = <<F(40)>>

-----------------------------------------------------------------------------
(* C7, C8.                                                                 *)

\* The lines of h of three or more tokens whose first token is key.
KeyLines3(h, key) ==
    {i \in 1..Len(h) : Len(Toks(h, i)) >= 3 /\ Toks(h, i)[1] = key}

\* The floats of the second and third token of line i of h.
Range(h, i) == <<Float(Toks(h, i)[2]), Float(Toks(h, i)[3])>>

\* C7 as stated: a returned xlim is empty or the two values of the last
\* XSCALE line; likewise ylim and YSCALE.
C7_LimitsLastWins ==
    pc = "done" =>
        /\ ret.xlim = IF KeyLines3(hist, "XSCALE") = {} THEN <<>>
                      ELSE Range(hist, MaxOf(KeyLines3(hist, "XSCALE")))
        /\ ret.ylim = IF KeyLines3(hist, "YSCALE") = {} THEN <<>>
                      ELSE Range(hist, MaxOf(KeyLines3(hist, "YSCALE")))

\* The ranges of all lines of h under key, one after the other.
RECURSIVE Ranges(_, _)
Ranges(h, key) ==
    IF h = <<>> THEN <<>>
    ELSE Ranges(SubSeq(h, 1, Len(h) - 1), key) \o
         (IF Len(h) \in KeyLines3(h, key) THEN Range(h, Len(h)) ELSE <<>>)

ScaleExample == <<<<"XSCALE", "0", "100">>, <<"YSCALE", "-5", "5">>>>

-----------------------------------------------------------------------------
(* C9.                                                                     *)

\* The lines of h of two or more tokens whose first token is key.
KeyLines2(h, key) ==
    {i \in 1..Len(h) : Len(Toks(h, i)) >= 2 /\ Toks(h, i)[1] = key}

\* The label the last line of h under key gives, "" without such a line.
LabelRef(h, key) ==
    IF KeyLines2(h, key) = {} THEN ""
    ELSE Join(Tail(Toks(h, MaxOf(KeyLines2(h, key)))))

\* C9: xlab is the tokens after the first of the last XTEXT line of two or
\* more tokens, joined by single spaces, "" without such a line, whether or
\* not a block is open or clip is on; likewise ylab; and so in the result.
C9_LabelsLastWin ==
    /\ xlab = LabelRef(hist, "XTEXT")
    /\ ylab = LabelRef(hist, "YTEXT")
    /\ pc = "done" => ret.xlab = xlab /\ ret.ylab = ylab
    /\ (/\ KeyLines2(hist, "XTEXT") # {}
        /\ Toks(hist, MaxOf(KeyLines2(hist, "XTEXT"))) = <<"XTEXT", "T", "K">>)
       => xlab = "T K"

\* A second XTEXT line, ragged, read inside an open block, replaced the
\* label of the first.
C9_Witness ==
    /\ pc = "done" /\ blockin
    /\ Cardinality(KeyLines2(hist, "XTEXT")) = 2
    /\ Toks(hist, 2) = <<"XTEXT", "Temperature">>
    /\ ret.xlab = "T K"

-----------------------------------------------------------------------------
(* C10.                                                                    *)

\* f is the blocks bs in order, each followed by one None.
IsFlat(f, bs) ==
    /\ Len(f) = Off(bs, Len(bs) + 1)
    /\ \A i \in 1..Len(bs) :
         /\ Segment(f, bs, i) = bs[i]
         /\ f[Off(bs, i) + Len(bs[i]) + 1] = None

TripExample ==
    <<<<"XTEXT", "Temperature">>, <<"YTEXT", "Energy">>, <<"BLOCK">>,
      <<"1.0", "2.0">>, <<"2.0", "3.0">>, <<"BLOCKEND">>>>

\* C10: the per-block result is the sealed blocks; the flattened result of
\* the same stream is those blocks in sealing order, one None after each,
\* the last one too; labels and limits are the same in both modes; the
\* round-trip file gives x = [1.0, 2.0, None], y = [2.0, 3.0, None].
C10_FlatIsBlocksJoined ==
    pc = "done" =>
        /\ IF ret.blocks
           THEN ret.x = x /\ ret.y = y
           ELSE IsFlat(ret.x, x) /\ IsFlat(ret.y, y)
        /\ ret.xlab = xlab /\ ret.ylab = ylab
        /\ ret.xlim = xlim /\ ret.ylim = ylim
        /\ (TokHist(hist) = TripExample /\ ~ret.blocks) =>
             /\ ret.x = <<F(10), F(20), None>>
             /\ ret.y = <<F(20), F(30), None>>
             /\ ret.xlab = "Temperature" /\ ret.ylab = "Energy"
             /\ ret.xlim = <<>> /\ ret.ylim = <<>>

\* The round-trip file, flattened.
C10_Witness ==
    /\ pc = "done" /\ ~ret.blocks /\ TokHist(hist) = TripExample
    /\ ret.x = <<F(10), F(20), None>>

-----------------------------------------------------------------------------
(* C11.                                                                    *)

\* C11: every call starts with the block-open flag off, clip on, no block
\* and no metadata, whatever the calls before it read; and a call on the
\* stream of the call before it, in the same mode, ends as that call did:
\* the same exception, or the same result.
C11_NoStateAcrossCalls ==
    /\ (pc = "reading" /\ hist = <<>>) =>
         /\ ~blockin /\ clip /\ ~bound
         /\ x = <<>> /\ y = <<>> /\ xlab = "" /\ ylab = ""
         /\ xlim = <<>> /\ ylim = <<>>
    /\ (prev.pc # "none" /\ pc \in {"done", "raised"} /\ hist = prev.hist) =>
         /\ pc = prev.pc
         /\ err = prev.err
         /\ (pc = "done" /\ ret.blocks = prev.ret.blocks) => ret = prev.ret

\* The same three lines were parsed twice, to the same result with data.
C11_Witness ==
    /\ prev.pc = "done" /\ pc = "done" /\ hist = prev.hist /\ Len(hist) = 3
    /\ ret = prev.ret /\ ret.blocks /\ ret.x = <<<<F(10)>>>>

-----------------------------------------------------------------------------
(* C12.                                                                    *)

\* a is an initial part of b.
IsPrefix(a, b) == Len(a) <= Len(b) /\ SubSeq(b, 1, Len(a)) = a

\* The line a Reads step consumes is no BLOCK and no BLOCKEND line.
NoMarker == Len(NewToks) = 0 \/ NewToks[1] \notin {"BLOCK", "BLOCKEND"}

\* C12: a line whose second token is PLOTTED, read while a block is open
\* and clip is on, puts exactly one None at the end of the open block's
\* x-sequence and one at the end of its y-sequence, and no number; whatever
\* a later line of the block appends goes after it.
C12_PlottedAppendsSentinel ==
    [][(Reads /\ blockin /\ NoMarker) =>
         /\ IsPrefix(xblock, xblock') /\ IsPrefix(yblock, yblock')
         /\ (clip' /\ Len(NewToks) >= 2 /\ NewToks[2] = "PLOTTED") =>
              /\ xblock' = Append(xblock, None)
              /\ yblock' = Append(yblock, None)]_vars

\* A sentinel between two pairs of the open block.
C12_Witness ==
    /\ blockin
    /\ xblock = <<F(10), None, F(30)>>
    /\ yblock = <<F(20), None, F(40)>>

-----------------------------------------------------------------------------
(* C13.                                                                    *)

\* C13: in per-block mode plot_exp_datafile makes one ax.plot call for each
\* sealed block, in sealing order, with that block's x- and y-sequence; in
\* flattened mode one ax.plot call with the flattened sequences; then it
\* sets the x label, the y label, the x limits and the y limits of the
\* parse result, in that order; and it returns the surface it was given, a
\* new one only when it was given none.
C13_PlotDrawsEachBlock ==
    pc = "plotted" =>
        LET n == IF ret.blocks THEN Len(x) ELSE 1
            log == plot.log
        IN  /\ Len(log) = n + 4
            /\ \A i \in 1..n : log[i].op = "plot"
            /\ IF ret.blocks
               THEN \A i \in 1..n : log[i].a = x[i] /\ log[i].b = y[i]
               ELSE IsFlat(log[1].a, x) /\ IsFlat(log[1].b, y)
            /\ log[n + 1].op = "set_xlabel" /\ log[n + 1].a = xlab
            /\ log[n + 2].op = "set_ylabel" /\ log[n + 2].a = ylab
            /\ log[n + 3].op = "set_xlim" /\ log[n + 3].a = xlim
            /\ log[n + 4].op = "set_ylim" /\ log[n + 4].a = ylim
            /\ plot.ret = IF plot.given THEN "caller" ELSE "new"

\* Two different blocks drawn one by one on the caller's surface.
C13_Witness ==
    /\ pc = "plotted" /\ ret.blocks /\ plot.given /\ plot.ret = "caller"
    /\ Len(x) = 2 /\ x[1] # x[2]
    /\ plot.log[1].a = <<F(10)>> /\ plot.log[2].a = <<>>

-----------------------------------------------------------------------------
(* C14.                                                                    *)

\* C14 as stated: an XTEXT, YTEXT, CLIP ON or CLIP OFF line read while a
\* block is open appends nothing to the open block, whatever its other
\* tokens are.
C14_MetadataAppendsNothing ==
    [][(/\ Reads /\ blockin /\ Len(NewToks) >= 2
        /\ \/ NewToks[1] \in {"XTEXT", "YTEXT"}
           \/ NewToks[1] = "CLIP" /\ NewToks[2] \in {"ON", "OFF"})
       => (xblock' = xblock /\ yblock' = yblock)]_vars

-----------------------------------------------------------------------------
(* C15.                                                                    *)

\* C15 as stated: the x- and the y-sequence of the open block have the same
\* length, so have those of every sealed block, and so have the returned x
\* and y, block by block in per-block mode.
C15_ParallelSequences ==
    /\ Len(xblock) = Len(yblock)
    /\ Len(x) = Len(y)
    /\ \A i \in 1..Len(x) : Len(x[i]) = Len(y[i])
    /\ pc = "done" =>
         /\ Len(ret.x) = Len(ret.y)
         /\ ret.blocks => \A i \in 1..Len(ret.x) : Len(ret.x[i]) = Len(ret.y[i])

-----------------------------------------------------------------------------
(* C16.                                                                    *)

\* C16: while no block is open, a line that is no BLOCK and no BLOCKEND line
\* leaves the sealed blocks, their contents and their number as they were;
\* no block is opened and nothing is collected.
C16_NoOpenBlockNoChange ==
    [][(Reads /\ ~blockin /\ NoMarker) =>
         /\ x' = x /\ y' = y
         /\ xblock' = xblock /\ yblock' = yblock
         /\ ~blockin']_vars

\* A coordinate line and a PLOTTED line were read after the only block was
\* sealed.
C16_Witness ==
    /\ ~blockin /\ Len(hist) = 5
    /\ Tok1(hist, 3) = "BLOCKEND"
    /\ Toks(hist, 4) = <<"3.0", "4.0">>
    /\ Len(Toks(hist, 5)) >= 2 /\ Toks(hist, 5)[2] = "PLOTTED"
    /\ x = <<<<F(10)>>>> /\ y = <<<<F(20)>>>>

-----------------------------------------------------------------------------
(* C17.                                                                    *)

\* C17: no step of the parse removes a sealed block, moves it, or changes
\* its entries: every sealed block stays at its place with its contents.
C17_SealedBlocksFrozen ==
    [][/\ Len(x') >= Len(x) /\ Len(y') >= Len(y)
       /\ \A i \in 1..Len(x) : x'[i] = x[i]
       /\ \A i \in 1..Len(y) : y'[i] = y[i]]_vars

\* After a block was sealed, a BLOCK line and a coordinate line were read.
C17_Witness ==
    /\ blockin /\ Len(hist) = 5
    /\ Tok1(hist, 3) = "BLOCKEND" /\ Tok1(hist, 4) = "BLOCK"
    /\ x = <<<<F(10)>>>> /\ y = <<<<F(20)>>>>
    /\ xblock = <<F(30)>>

-----------------------------------------------------------------------------
(* C18.                                                                    *)

\* The BLOCKEND lines of h read while a block was open: a BLOCK line comes
\* before, with no BLOCKEND line between the two.
SealingEnds(h) ==
    {e \in EndLines(h) :
        \E b \in BlockLines(h) :
            b < e /\ ~\E k \in EndLines(h) : b < k /\ k < e}

\* C18 as stated: the result holds as many blocks as BLOCKEND lines sealed
\* an open block; a block still open when the stream ends is not among
\* them.
C18_OnlySealedBlocksReturned ==
    pc = "done" =>
        /\ Len(x) = Cardinality(SealingEnds(hist))
        /\ Len(y) = Cardinality(SealingEnds(hist))
        /\ ret.blocks =>
             /\ Len(ret.x) = Cardinality(SealingEnds(hist))
             /\ Len(ret.y) = Cardinality(SealingEnds(hist))
        /\ ~ret.blocks =>
             /\ Len(ret.x) = Entries(x) + Cardinality(SealingEnds(hist))
             /\ Len(ret.y) = Entries(y) + Cardinality(SealingEnds(hist))

-----------------------------------------------------------------------------
(* C19.                                                                    *)

\* C19 as stated: the call ends, by a result or otherwise, only when every
\* line of the file has been consumed.
C19_RunsToExhaustion == pc # "reading" => rest = <<>>

=============================================================================
